---- MODULE Spec2Model ----
(***************************************************************************)
(* Wikipedia Philosophy Game (src/wikipedia_philosophy.py).                *)
(*                                                                         *)
(* Two state machines over one set of variables:                           *)
(*   Spec       - one run of WikipediaPhilosophyGame.navigate              *)
(*   ExtractSpec - one call of find_first_valid_links on a bounded page    *)
(*                                                                         *)
(* Page titles are strings.  Cycle detection only compares titles for      *)
(* equality, so a page that has not been visited yet is named by the       *)
(* position it will take in visited_pages ("1", "2", ...).                 *)
(*                                                                         *)
(* An href is the record [prefix, ns, title, fragment] of the pieces the   *)
(* code looks at: href = prefix \o ns \o title \o fragment.                *)
(* A page is [kind, content, body, paras]; a paragraph is a sequence of    *)
(* nodes [tag, href, text, anc]: a text node or an anchor with its link    *)
(* text and the names of its ancestors, nearest first.                     *)
(*                                                                         *)
(* Besides navigate's locals (current_page, iteration, link_attempt, html, *)
(* valid_links), visited_pages and what is printed (outcome, path), the    *)
(* state records the history of the run: fetches counts the calls of       *)
(* fetch_page, backtracks the passes that went back to the previous page,  *)
(* all_single whether every extraction so far returned exactly one         *)
(* candidate, start_links the number of candidates of the start page,      *)
(* select_attempt the value of link_attempt the latest link selection      *)
(* read (<<>> before the first).                                           *)
(*                                                                         *)
(* MainSpec is the process: main reads the start page, calls navigate and  *)
(* exits; InterruptSpec adds a KeyboardInterrupt at any point.             *)
(***************************************************************************)
EXTENDS Integers, Sequences, FiniteSets, TLC

VARIABLES start_page, current_page, iteration, link_attempt, visited_pages,
          html, num_links, valid_links, pc, outcome, path,
          fetches, backtracks, all_single, start_links, select_attempt,
          exit_status, partial_path, interrupted

vars == <<start_page, current_page, iteration, link_attempt, visited_pages,
          html, num_links, valid_links, pc, outcome, path,
          fetches, backtracks, all_single, start_links, select_attempt,
          exit_status, partial_path, interrupted>>

\* What main adds to the state of navigate: the status the process exited
\* with (<<>> while it runs), the partial path main printed (<<>> when it
\* printed none, <<p>> when it printed p), and whether Ctrl-C arrived.
main_vars == <<exit_status, partial_path, interrupted>>

(***************************************************************************)
(* Class constants                                                         *)
(***************************************************************************)
BASE_URL == "https://en.wikipedia.org"

TARGET == "Philosophy"

MAX_ITERATIONS == 500

(***************************************************************************)
(* Bounds of the pages drawn for find_first_valid_links                    *)
(***************************************************************************)
MaxLen == 4

MaxNumLinks == 3

MaxNavLinks == 2

(***************************************************************************)
(* Sequences                                                               *)
(***************************************************************************)
Range(s) == {s[i] : i \in 1..Len(s)}

SeqsUpTo(S, n) == UNION {[1..k -> S] : k \in 0..n}

(***************************************************************************)
(* hrefs and URLs                                                          *)
(***************************************************************************)
WIKI == "/wiki/"

invalid_prefixes == {"Help:", "Wikipedia:", "Special:", "Talk:", "File:",
                     "Template:", "Category:", "Portal:"}

Href(prefix, ns, title, fragment) ==
    [prefix |-> prefix, ns |-> ns, title |-> title, fragment |-> fragment]

NoHref == Href("", "", "", "")

\* urljoin(BASE_URL, href): an absolute-path reference keeps the base's
\* origin, a fragment-only or empty reference keeps the base as it is, an
\* absolute URL replaces it.
urljoin(base, href) ==
    IF href.prefix = WIKI
    THEN [origin |-> base, path |-> WIKI, ns |-> href.ns,
          title |-> href.title, fragment |-> href.fragment]
    ELSE IF href.prefix \in {"#", ""}
    THEN [origin |-> base, path |-> "", ns |-> "", title |-> "",
          fragment |-> href.prefix \o href.ns \o href.title \o href.fragment]
    ELSE [origin |-> href.prefix, path |-> "/", ns |-> href.ns,
          title |-> href.title, fragment |-> href.fragment]

\* urllib.parse.unquote on the titles of the model: "%79" is "y".
unquote(title) == IF title = "Philosoph%79" THEN "Philosophy" ELSE title

\* None is <<>>, a title t is <<t>>.
get_page_title_from_url(url) ==
    IF url.path = WIKI THEN <<unquote(url.ns \o url.title)>> ELSE <<>>

(***************************************************************************)
(* Link filter                                                             *)
(***************************************************************************)
\* the filter without its list of special pages
is_valid_link_any_namespace(link) ==
    /\ link.href # NoHref
    /\ link.href.prefix = WIKI
    /\ ~(link.href.fragment = "#cite" \/ link.href.prefix = "#")

is_valid_link(link) ==
    /\ link.href # NoHref
    /\ link.href.prefix = WIKI
    /\ link.href.ns \notin invalid_prefixes
    /\ ~(link.href.fragment = "#cite" \/ link.href.prefix = "#")

\* The paragraph's rendered text: the text of its nodes, in order.
get_text(paragraph) ==
    LET nonempty(node) == node.text # ""
        kept == SelectSeq(paragraph, nonempty)
    IN  [i \in 1..Len(kept) |-> kept[i].text]

\* re.search(r'\([^)]*' + re.escape(link_text) + r'[^)]*\)', text)
re_search_parens(link_text, text) ==
    \E a \in 1..Len(text) : \E c \in (a + 1)..Len(text) :
        /\ text[a] = "("
        /\ text[c] = ")"
        /\ \A x \in (a + 1)..(c - 1) : text[x] # ")"
        /\ \/ link_text = ""
           \/ \E b \in (a + 1)..(c - 1) : text[b] = link_text

\* The walk up from the anchor stops at the first 'p'; without one there is
\* no paragraph text to search.
is_in_parentheses(element, paragraph) ==
    /\ \E i \in 1..Len(element.anc) : element.anc[i] = "p"
    /\ re_search_parens(element.text, get_text(paragraph))

is_in_italics(element) ==
    \E i \in 1..Len(element.anc) :
        /\ element.anc[i] \in {"i", "em"}
        /\ \A j \in 1..(i - 1) : element.anc[j] # "p"

\* paragraph.get_text(strip=True) is empty
is_empty_paragraph(paragraph) ==
    \A i \in 1..Len(paragraph) : paragraph[i].text \in {"", " "}

\* the anchor loop returning one candidate late
RECURSIVE scan_links_late(_, _, _, _)
scan_links_late(links, paragraph, found, n) ==
    IF links = <<>> THEN [valid_links |-> found, returned |-> FALSE]
    ELSE LET link == Head(links) IN
         IF \/ ~is_valid_link(link)
            \/ is_in_italics(link)
            \/ is_in_parentheses(link, paragraph)
         THEN scan_links_late(Tail(links), paragraph, found, n)
         ELSE LET appended == Append(found, urljoin(BASE_URL, link.href)) IN
              IF Len(appended) > n
              THEN [valid_links |-> appended, returned |-> TRUE]
              ELSE scan_links_late(Tail(links), paragraph, appended, n)

\* The loop over the anchors of one paragraph (lines 139-157); returned is
\* TRUE when the loop left the function through line 157.
RECURSIVE scan_links(_, _, _, _)
scan_links(links, paragraph, found, n) ==
    IF links = <<>> THEN [valid_links |-> found, returned |-> FALSE]
    ELSE LET link == Head(links) IN
         IF \/ ~is_valid_link(link)
            \/ is_in_italics(link)
            \/ is_in_parentheses(link, paragraph)
         THEN scan_links(Tail(links), paragraph, found, n)
         ELSE LET appended == Append(found, urljoin(BASE_URL, link.href)) IN
              IF Len(appended) >= n
              THEN [valid_links |-> appended, returned |-> TRUE]
              ELSE scan_links(Tail(links), paragraph, appended, n)

\* The loop over the paragraphs (lines 127-159).
RECURSIVE scan_paragraphs(_, _, _)
scan_paragraphs(paras, found, n) ==
    IF paras = <<>> THEN found
    ELSE LET paragraph == Head(paras)
             isAnchor(node) == node.tag = "a"
             links == SelectSeq(paragraph, isAnchor)
         IN  IF is_empty_paragraph(paragraph)
             THEN scan_paragraphs(Tail(paras), found, n)
             ELSE LET r == scan_links(links, paragraph, found, n) IN
                  IF r.returned THEN r.valid_links
                  ELSE scan_paragraphs(Tail(paras), r.valid_links, n)

find_first_valid_links(page, n) ==
    IF ~page.content THEN <<>>
    ELSE IF ~page.body THEN <<>>
    ELSE scan_paragraphs(page.paras, <<>>, n)

(***************************************************************************)
(* Pages                                                                   *)
(***************************************************************************)
Page(kind, content, body, paras) ==
    [kind |-> kind, content |-> content, body |-> body, paras |-> paras]

\* fetch_page's (None, None), and the text of a response without a body
NoneHtml == Page("None", FALSE, FALSE, <<>>)

EmptyHtml == Page("empty", FALSE, FALSE, <<>>)

Text(s) == [tag |-> "text", href |-> NoHref, text |-> s, anc |-> <<>>]

Anchor(href, text, anc) == [tag |-> "a", href |-> href, text |-> text, anc |-> anc]

ArticleLink(title) == Anchor(Href(WIKI, "", title, ""), "w", <<"p">>)

(***************************************************************************)
(* The pages find_first_valid_links is applied to in ExtractSpec: every    *)
(* sequence of at most MaxLen nodes and paragraph breaks, and two pages    *)
(* that lack a container.                                                  *)
(***************************************************************************)
Break == [tag |-> "/p", href |-> NoHref, text |-> "", anc |-> <<>>]

XNodes ==
    { Text("("), Text(")"), Text(" "),
      Anchor(Href(WIKI, "", "A", ""), "w", <<"p">>),
      Anchor(Href(WIKI, "", "B", ""), "v", <<"b", "p">>),
      Anchor(Href(WIKI, "", "C", ""), "w", <<"i", "p">>),
      Anchor(Href(WIKI, "Help:", "D", ""), "v", <<"p">>),
      Anchor(Href(WIKI, "", "E", "#cite"), "v", <<"p">>),
      Anchor(Href("https://example.org/", "", "F", ""), "v", <<"p">>),
      Anchor(Href(WIKI, "", "G", ""), "", <<"p">>) }

\* The paragraphs of a flat sequence of nodes and breaks.
RECURSIVE Paragraphs(_, _)
Paragraphs(nodes, open) ==
    IF nodes = <<>> THEN <<open>>
    ELSE IF Head(nodes) = Break
    THEN <<open>> \o Paragraphs(Tail(nodes), <<>>)
    ELSE Paragraphs(Tail(nodes), Append(open, Head(nodes)))

XPages ==
    { Page("html", TRUE, TRUE, Paragraphs(s, <<>>)) :
          s \in SeqsUpTo(XNodes \cup {Break}, MaxLen) }
    \cup { Page("html", FALSE, FALSE, <<<<ArticleLink("A")>>>>),
           Page("html", TRUE, FALSE, <<<<ArticleLink("A")>>>>) }

(***************************************************************************)
(* The responses fetch_page can give to navigate.  A page links to the     *)
(* target, to a page not visited yet, to the first visited page, or to the *)
(* empty title.                                                            *)
(***************************************************************************)
FreshPage == ToString(Len(visited_pages) + 1)

NavTitles ==
    {TARGET, FreshPage, ""}
    \cup (IF visited_pages = <<>> THEN {} ELSE {visited_pages[1]})

NavNodes == {ArticleLink(t) : t \in NavTitles}

NavPages ==
    { Page("html", TRUE, TRUE, <<s>>) : s \in SeqsUpTo(NavNodes, MaxNavLinks) }
    \cup { Page("html", FALSE, FALSE, <<>>), Page("html", TRUE, FALSE, <<>>) }

Responses == NavPages \cup {NoneHtml, EmptyHtml}

\* a test that takes every response for a page
not_html_never(h) == FALSE

\* Python's "not html" and "not next_page"
not_html(h) == h.kind \in {"None", "empty"}

not_page(p) == p = <<>> \/ p[1] = ""

(***************************************************************************)
(* navigate                                                                *)
(***************************************************************************)
Init ==
    /\ start_page \in {TARGET, "1"}
    /\ current_page = start_page
    /\ iteration = 0
    /\ link_attempt = 0
    /\ visited_pages = <<>>
    /\ html = NoneHtml
    /\ num_links = 2
    /\ valid_links = <<>>
    /\ pc = "loop"
    /\ outcome = "Running"
    /\ path = <<>>
    /\ fetches = 0
    /\ backtracks = 0
    /\ all_single = TRUE
    /\ start_links = 0
    /\ select_attempt = <<>>
    /\ exit_status = <<>>
    /\ partial_path = <<>>
    /\ interrupted = FALSE

\* a loop that runs one pass too many
loop_condition_inclusive(i) == i <= MAX_ITERATIONS

\* line 171
loop_condition(i) == i < MAX_ITERATIONS

\* a pass that does not count
next_iteration_stuck(i) == i

\* line 172
next_iteration(i) == i + 1

\* a target test that never succeeds
reached_target_never(page) == FALSE

\* a comparison that misses the target's capital
reached_target_lowercase(page) == page = "philosophy"

\* line 175
reached_target(page) == page = TARGET

\* a loop detection that finds nothing
already_visited_never(page, visited) == FALSE

\* a loop detection that fires on every page
already_visited_always(page, visited) == TRUE

\* line 181
already_visited(page, visited) == page \in Range(visited)

\* a retry that is granted after every loop
first_attempt_always(attempt) == TRUE

\* line 184
first_attempt(attempt) == attempt = 0

\* a summary without its last line
print_summary_no_target(visited) == visited

\* print_summary: the pages of the path, then the target
print_summary(visited) == Append(visited, TARGET)

Return(o) ==
    /\ pc' = "done"
    /\ outcome' = o

\* lines 171-178
ReachedTarget ==
    /\ pc = "loop"
    /\ loop_condition(iteration)
    /\ iteration' = next_iteration(iteration)
    /\ reached_target(current_page)
    /\ path' = print_summary(visited_pages)
    /\ Return("Succeeded")
    /\ UNCHANGED <<start_page, current_page, link_attempt, visited_pages, html,
                   num_links, valid_links, fetches, backtracks, all_single, start_links>>
    /\ UNCHANGED <<select_attempt, main_vars>>

\* the backtrack as the comment on line 191 describes it: the page gone
\* back to is taken out of visited_pages
LoopDetectedForgets ==
    /\ pc = "loop"
    /\ loop_condition(iteration)
    /\ iteration' = next_iteration(iteration)
    /\ ~reached_target(current_page)
    /\ already_visited(current_page, visited_pages)
    /\ IF first_attempt(link_attempt)
       THEN /\ link_attempt' = 1
            /\ IF Len(visited_pages) >= 1
               THEN /\ current_page' = visited_pages[Len(visited_pages)]
                    /\ visited_pages' =
                           SubSeq(visited_pages, 1, Len(visited_pages) - 1)
                    /\ backtracks' = backtracks + 1
                    /\ UNCHANGED <<pc, outcome>>
               ELSE /\ Return("FailedNoPrevious")
                    /\ UNCHANGED <<current_page, backtracks, visited_pages>>
       ELSE /\ Return("FailedLoop")
            /\ UNCHANGED <<link_attempt, current_page, backtracks,
                           visited_pages>>
    /\ UNCHANGED <<start_page, html, num_links, valid_links,
                   path, fetches, all_single, start_links>>
    /\ UNCHANGED <<select_attempt, main_vars>>

\* lines 171-172, 180-199
LoopDetected ==
    /\ pc = "loop"
    /\ loop_condition(iteration)
    /\ iteration' = next_iteration(iteration)
    /\ ~reached_target(current_page)
    /\ already_visited(current_page, visited_pages)
    /\ IF first_attempt(link_attempt)
       THEN /\ link_attempt' = 1
            /\ IF Len(visited_pages) >= 1
               THEN /\ current_page' = visited_pages[Len(visited_pages)]
                    /\ backtracks' = backtracks + 1
                    /\ UNCHANGED <<pc, outcome>>
               ELSE /\ Return("FailedNoPrevious")
                    /\ UNCHANGED <<current_page, backtracks>>
       ELSE /\ Return("FailedLoop")
            /\ UNCHANGED <<link_attempt, current_page, backtracks>>
    /\ UNCHANGED <<start_page, visited_pages, html, num_links, valid_links,
                   path, fetches, all_single, start_links>>
    /\ UNCHANGED <<select_attempt, main_vars>>

\* lines 171-172, 201-203
VisitPage ==
    /\ pc = "loop"
    /\ loop_condition(iteration)
    /\ iteration' = next_iteration(iteration)
    /\ ~reached_target(current_page)
    /\ ~already_visited(current_page, visited_pages)
    /\ visited_pages' = Append(visited_pages, current_page)
    /\ pc' = "fetch"
    /\ UNCHANGED <<start_page, current_page, link_attempt, html, num_links,
                   valid_links, outcome, path, fetches, backtracks, all_single, start_links>>
    /\ UNCHANGED <<select_attempt, main_vars>>

\* lines 205-216: fetch_page (lines 37-46) answers with a page, with an empty
\* text or with None; find_first_valid_links is applied to a page.
FetchPage ==
    /\ pc = "fetch"
    /\ \E response \in Responses : html' = response
    /\ fetches' = fetches + 1
    /\ IF not_html(html')
       THEN /\ Return("FailedFetch")
            /\ UNCHANGED <<valid_links, all_single, start_links>>
       ELSE /\ valid_links' = find_first_valid_links(html', 2)
            /\ all_single' = (all_single /\ Len(valid_links') = 1)
            /\ start_links' = IF fetches = 0 THEN Len(valid_links')
                                             ELSE start_links
            /\ IF valid_links' = <<>>
               THEN Return("FailedNoLinks")
               ELSE pc' = "select" /\ UNCHANGED outcome
    /\ UNCHANGED <<start_page, current_page, iteration, link_attempt,
                   visited_pages, num_links, path, backtracks>>
    /\ UNCHANGED <<select_attempt, main_vars>>

\* a choice that takes the second candidate whenever there is one
choose_link_second(attempt, links) ==
    IF Len(links) > 1 THEN links[2] ELSE links[1]

\* lines 218-227
choose_link(attempt, links) ==
    IF attempt = 1 /\ Len(links) > 1 THEN links[2] ELSE links[1]

\* a reset that counts the attempt instead
reset_attempt_counts(attempt) == attempt + 1

\* lines 223 and 227
reset_attempt(attempt) == 0

\* lines 218-235
SelectLink ==
    /\ pc = "select"
    /\ link_attempt' = reset_attempt(link_attempt)
    /\ LET next_url == choose_link(link_attempt, valid_links)
           next_page == get_page_title_from_url(next_url)
       IN  IF not_page(next_page)
           THEN Return("FailedTitle") /\ UNCHANGED current_page
           ELSE /\ current_page' = next_page[1]
                /\ pc' = "loop"
                /\ UNCHANGED outcome
    /\ UNCHANGED <<start_page, iteration, visited_pages, html, num_links,
                   valid_links, path, fetches, backtracks, all_single, start_links>>
    /\ select_attempt' = <<link_attempt>>
    /\ UNCHANGED main_vars

\* lines 171, 237-238
BudgetExhausted ==
    /\ pc = "loop"
    /\ ~loop_condition(iteration)
    /\ Return("FailedBudget")
    /\ UNCHANGED <<start_page, current_page, iteration, link_attempt,
                   visited_pages, html, num_links, valid_links, path, fetches,
                   backtracks, all_single, start_links>>
    /\ UNCHANGED <<select_attempt, main_vars>>

Next ==
    \/ ReachedTarget
    \/ LoopDetected
    \/ VisitPage
    \/ FetchPage
    \/ SelectLink
    \/ BudgetExhausted

Spec == Init /\ [][Next]_vars

(***************************************************************************)
(* main                                                                    *)
(***************************************************************************)
\* What the user may type at the prompt
Inputs == {"", "  ", TARGET, " Philosophy ", "1", " 1"}

\* str.strip on the inputs of the model
strip(text) ==
    CASE text = "  " -> ""
      [] text = " Philosophy " -> "Philosophy"
      [] text = " 1" -> "1"
      [] OTHER -> text

\* lines 251-258: before the prompt is answered
MainInit ==
    /\ pc = "input"
    /\ start_page = ""
    /\ current_page = ""
    /\ iteration = 0
    /\ link_attempt = 0
    /\ visited_pages = <<>>
    /\ html = NoneHtml
    /\ num_links = 2
    /\ valid_links = <<>>
    /\ outcome = "Running"
    /\ path = <<>>
    /\ fetches = 0
    /\ backtracks = 0
    /\ all_single = TRUE
    /\ start_links = 0
    /\ select_attempt = <<>>
    /\ exit_status = <<>>
    /\ partial_path = <<>>
    /\ interrupted = FALSE

\* an exit that reports success whatever navigate returned
exit_code_zero(success) == 0

\* line 276
exit_code(success) == IF success THEN 0 ELSE 1

\* lines 260-269, 163-165: the prompt is answered; an empty title ends the
\* process, any other starts navigate
ReadInput ==
    /\ pc = "input"
    /\ \E text \in Inputs : start_page' = strip(text)
    /\ IF start_page' = ""
       THEN /\ exit_status' = <<1>>
            /\ pc' = "exit"
            /\ UNCHANGED current_page
       ELSE /\ current_page' = start_page'
            /\ pc' = "loop"
            /\ UNCHANGED exit_status
    /\ UNCHANGED <<iteration, link_attempt, visited_pages, html, num_links,
                   valid_links, outcome, path, fetches, backtracks, all_single,
                   start_links, select_attempt, partial_path, interrupted>>

\* lines 269-276: navigate has returned
MainExit ==
    /\ pc = "done"
    /\ LET success == outcome = "Succeeded" IN
       /\ partial_path' = IF success THEN partial_path ELSE <<visited_pages>>
       /\ exit_status' = <<exit_code(success)>>
    /\ pc' = "exit"
    /\ UNCHANGED <<start_page, current_page, iteration, link_attempt,
                   visited_pages, html, num_links, valid_links, outcome, path,
                   fetches, backtracks, all_single, start_links,
                   select_attempt, interrupted>>

MainNext ==
    \/ ReadInput
    \/ Next
    \/ MainExit

MainSpec == MainInit /\ [][MainNext]_vars

\* lines 279-284: KeyboardInterrupt unwinds main from wherever it is; the
\* handler prints its one line and exits with status 1
Interrupt ==
    /\ pc # "exit"
    /\ interrupted' = TRUE
    /\ exit_status' = <<1>>
    /\ pc' = "exit"
    /\ UNCHANGED <<start_page, current_page, iteration, link_attempt,
                   visited_pages, html, num_links, valid_links, outcome, path,
                   fetches, backtracks, all_single, start_links,
                   select_attempt, partial_path>>

InterruptNext ==
    \/ MainNext
    \/ Interrupt

InterruptSpec == MainInit /\ [][InterruptNext]_vars

(***************************************************************************)
(* One call of find_first_valid_links                                      *)
(***************************************************************************)
ExtractInit ==
    /\ html \in XPages
    /\ num_links \in 0..MaxNumLinks
    /\ valid_links = <<>>
    /\ pc = "call"
    /\ start_page = TARGET
    /\ current_page = TARGET
    /\ iteration = 0
    /\ link_attempt = 0
    /\ visited_pages = <<>>
    /\ outcome = "Running"
    /\ path = <<>>
    /\ fetches = 0
    /\ backtracks = 0
    /\ all_single = TRUE
    /\ start_links = 0
    /\ select_attempt = <<>>
    /\ exit_status = <<>>
    /\ partial_path = <<>>
    /\ interrupted = FALSE

\* lines 110-159
CallExtract ==
    /\ pc = "call"
    /\ valid_links' = find_first_valid_links(html, num_links)
    /\ pc' = "return"
    /\ UNCHANGED <<start_page, current_page, iteration, link_attempt,
                   visited_pages, html, num_links, outcome, path, fetches,
                   backtracks, all_single, start_links>>
    /\ UNCHANGED <<select_attempt, main_vars>>

ExtractNext == CallExtract

ExtractSpec == ExtractInit /\ [][ExtractNext]_vars

(***************************************************************************)
(* Properties                                                              *)
(***************************************************************************)
Last(s) == s[Len(s)]

TitleOf(url) == get_page_title_from_url(url)

\* C1 (Scenario C, backtrack success): a run whose start page has two
\* candidates, that detected a loop on its first attempt and went back to
\* the last visited page, whose second candidate leads to the target, ends
\* in Succeeded, unless the budget ran out first.
C1_BacktrackSucceeds ==
    ( /\ pc = "done"
      /\ backtracks >= 1
      /\ iteration < MAX_ITERATIONS
      /\ start_links = 2
      /\ Len(valid_links) = 2
      /\ TitleOf(valid_links[2]) = <<TARGET>> )
    => outcome = "Succeeded"

\* C2: a pass entered with current_page = TARGET ends the run in that pass
\* as Succeeded, and the path reported is visited_pages followed by TARGET.
C2_TargetOnEntry ==
    [][ (pc = "loop" /\ iteration < MAX_ITERATIONS /\ current_page = TARGET)
        => ( /\ pc' = "done"
             /\ outcome' = "Succeeded"
             /\ path' = visited_pages \o <<TARGET>>
             /\ Last(path') = TARGET
             /\ visited_pages' = visited_pages ) ]_vars

C2_Witness ==
    /\ pc = "done"
    /\ outcome = "Succeeded"
    /\ current_page = TARGET
    /\ Len(visited_pages) = 3
    /\ path = visited_pages \o <<TARGET>>

\* C3: visited_pages never holds the same page twice: a step that changes it
\* appends current_page, which was not in it.
C3_NoDuplicates ==
    /\ [](Cardinality(Range(visited_pages)) = Len(visited_pages))
    /\ [][ visited_pages' # visited_pages
           => /\ visited_pages' = Append(visited_pages, current_page)
              /\ current_page \notin Range(visited_pages) ]_vars

C3_Witness ==
    /\ backtracks = 1
    /\ Len(visited_pages) = 3
    /\ TitleOf(valid_links[1]) = <<visited_pages[1]>>
    /\ current_page = visited_pages[3]

Outcomes == {"Succeeded", "FailedFetch", "FailedNoLinks", "FailedLoop",
             "FailedNoPrevious", "FailedTitle", "FailedBudget"}

\* What is left of a run: the passes the budget still allows, and the steps
\* left in the current pass.
Remaining ==
    IF pc = "done" THEN 0
    ELSE 3 * (MAX_ITERATIONS - iteration)
         + (CASE pc = "loop" -> 1 [] pc = "select" -> 2 [] pc = "fetch" -> 3)

\* C4: every pass of the loop adds exactly 1 to the iteration counter, the
\* pass that backtracks included, and no other step changes it; the counter
\* never exceeds MAX_ITERATIONS; and every run terminates with one of the
\* terminal outcomes: a run that has not ended can always take a step, and
\* every step takes it closer to its end.
C4_Terminates ==
    /\ [][ IF pc = "loop" /\ iteration < MAX_ITERATIONS
           THEN iteration' = iteration + 1
           ELSE iteration' = iteration ]_vars
    /\ [](iteration <= MAX_ITERATIONS)
    /\ [](pc # "done" => outcome = "Running" /\ ENABLED Next)
    /\ [](pc = "done" => outcome \in Outcomes /\ ~ENABLED Next)
    /\ [](Remaining >= 0)
    /\ [][Remaining' < Remaining]_vars

C4_Witness ==
    /\ pc = "done"
    /\ outcome = "FailedBudget"
    /\ iteration = MAX_ITERATIONS
    /\ backtracks = 1

\* C5 (Scenario E, budget exhaustion): a run whose every pass visited a new
\* page other than the target, with every fetch and extraction succeeding,
\* ends in FailedBudget after exactly MAX_ITERATIONS passes with
\* MAX_ITERATIONS visited pages; no run ends in FailedBudget earlier.
C5_BudgetExhaustion ==
    /\ []( outcome = "FailedBudget"
           => /\ iteration = MAX_ITERATIONS
              /\ backtracks = 0 => Len(visited_pages) = MAX_ITERATIONS )
    /\ []( (pc = "loop" /\ Len(visited_pages) = MAX_ITERATIONS)
           => iteration = MAX_ITERATIONS )
    /\ [][ (pc = "loop" /\ Len(visited_pages) = MAX_ITERATIONS)
           => ( /\ pc' = "done"
                /\ outcome' = "FailedBudget"
                /\ visited_pages' = visited_pages
                /\ iteration' = MAX_ITERATIONS ) ]_vars

C5_Witness ==
    /\ pc = "done"
    /\ outcome = "FailedBudget"
    /\ backtracks = 0
    /\ iteration = MAX_ITERATIONS
    /\ Len(visited_pages) = MAX_ITERATIONS
    /\ fetches = MAX_ITERATIONS

\* The names of the first n distinct pages of a walk, in visiting order.
WalkPages(n) == [i \in 1..n |-> ToString(i)]

\* A run over pages with exactly one candidate each has ended after
\* detecting that its walk came back to a visited page.
SingleLinkCycleEnded ==
    /\ pc = "done"
    /\ all_single
    /\ backtracks >= 1

\* C6 as stated (Scenario B, unrecoverable cycle): when every page has
\* exactly one candidate and the walk closes a cycle, the backtrack fires
\* exactly once and the run ends in FailedLoop with visited_pages the
\* distinct pages of the walk in visiting order.
C6_CycleEndsInFailedLoop ==
    SingleLinkCycleEnded
    => /\ backtracks = 1
       /\ outcome = "FailedLoop"
       /\ visited_pages = WalkPages(Len(visited_pages))

\* C6 as amended: the same, for a walk of at most MAX_ITERATIONS - 2
\* distinct pages; the backtrack fires at the first revisit, that is in the
\* pass after the last new page, sets link_attempt to 1 and leaves
\* visited_pages alone, and the pass after it ends the run in FailedLoop.
C6_ShortCycleEndsInFailedLoop ==
    /\ []( (SingleLinkCycleEnded /\ Len(visited_pages) <= MAX_ITERATIONS - 2)
           => /\ backtracks = 1
              /\ outcome = "FailedLoop"
              /\ iteration = Len(visited_pages) + 2
              /\ visited_pages = WalkPages(Len(visited_pages)) )
    /\ [][ backtracks' # backtracks
           => /\ backtracks = 0 /\ backtracks' = 1
              /\ current_page \in Range(visited_pages)
              /\ iteration = Len(visited_pages)
              /\ link_attempt = 0 /\ link_attempt' = 1
              /\ visited_pages' = visited_pages ]_vars
    /\ [][ ( /\ pc = "loop" /\ backtracks = 1 /\ all_single
             /\ Len(visited_pages) <= MAX_ITERATIONS - 2 )
           => /\ pc' = "done"
              /\ outcome' = "FailedLoop"
              /\ visited_pages' = visited_pages ]_vars

\* The cycle A -> B -> C -> A of Scenario B, at its end.
C6_Witness ==
    /\ SingleLinkCycleEnded
    /\ outcome = "FailedLoop"
    /\ visited_pages = <<"1", "2", "3">>
    /\ TitleOf(valid_links[1]) = <<"1">>
    /\ iteration = 5

\* C7 (Scenario D, immediate success): started on the target, the run ends
\* in its first pass as Succeeded, fetches nothing, extracts nothing, leaves
\* visited_pages empty and reports the path <<TARGET>>.
C7_ImmediateSuccess ==
    /\ []( start_page = TARGET
           => /\ fetches = 0
              /\ visited_pages = <<>>
              /\ valid_links = <<>>
              /\ html = NoneHtml
              /\ \/ pc = "loop" /\ iteration = 0 /\ outcome = "Running"
                 \/ /\ pc = "done" /\ iteration = 1 /\ outcome = "Succeeded"
                    /\ path = <<TARGET>> /\ Len(path) = 1 )
    /\ [][ (start_page = TARGET /\ pc = "loop") => pc' = "done" ]_vars

C7_Witness ==
    /\ start_page = TARGET
    /\ pc = "done"
    /\ outcome = "Succeeded"
    /\ path = <<TARGET>>

\* C8: find_first_valid_links(page, num_links) returns at most num_links
\* candidates, for every num_links >= 0.
C8_AtMostNumLinks ==
    pc = "return" => Len(valid_links) <= num_links

\* The anchors of a page
Anchors(page) ==
    {page.paras[i][j] : <<i, j>> \in
        {ij \in (1..Len(page.paras)) \X (1..MaxLen + 1) :
            /\ ij[2] <= Len(page.paras[ij[1]])
            /\ page.paras[ij[1]][ij[2]].tag = "a"}}

ReservedOrForeign(href) ==
    \/ href.prefix # WIKI
    \/ href.ns \in invalid_prefixes
    \/ href.fragment = "#cite"

\* C9: every candidate returned is the absolute URL of an anchor of the
\* page, and of no anchor whose href begins with a reserved namespace
\* prefix, lacks the /wiki/ prefix or carries the citation marker.
C9_NoReservedCandidate ==
    pc = "return"
    => \A k \in 1..Len(valid_links) :
          /\ \E a \in Anchors(html) : urljoin(BASE_URL, a.href) = valid_links[k]
          /\ \A a \in Anchors(html) :
                urljoin(BASE_URL, a.href) = valid_links[k]
                => ~ReservedOrForeign(a.href)

\* A page whose Help:, citation and foreign anchors all precede the one
\* anchor that is returned.
C9_Witness ==
    /\ pc = "return"
    /\ Len(valid_links) = 1
    /\ Len(html.paras) = 1
    /\ Len(html.paras[1]) = 4
    /\ \A j \in 1..3 : /\ html.paras[1][j].tag = "a"
                       /\ ReservedOrForeign(html.paras[1][j].href)
    /\ Cardinality({html.paras[1][j] : j \in 1..3}) = 3

\* C10 (Scenario A, no links): the start page is not the target, its fetch
\* succeeds and its content has no article-body container; then the
\* extraction returns nothing and the run ends in FailedNoLinks on the start
\* page, with visited_pages = <<start_page>> and exactly one fetch.
C10_NoLinksOnStartPage ==
    ( /\ pc = "done"
      /\ start_page # TARGET
      /\ fetches = 1
      /\ html.kind # "None"
      /\ ~(html.content /\ html.body) )
    => /\ outcome = "FailedNoLinks"
       /\ valid_links = <<>>
       /\ visited_pages = <<start_page>>
       /\ current_page = start_page

\* C11 (process outcome): the process exits with status 0 exactly when
\* navigate ended in Succeeded, and with status 1 after every failure of
\* navigate and on an empty input; after a success the full path
\* (visited_pages, then TARGET) has been printed, after a failure of navigate
\* the partial path (visited_pages); and a process that has not exited can
\* always take a step.
C11_ProcessOutcome ==
    /\ pc # "exit" => exit_status = <<>> /\ ENABLED MainNext
    /\ pc = "exit"
       => /\ exit_status \in {<<0>>, <<1>>}
          /\ exit_status = <<0>> <=> outcome = "Succeeded"
          /\ outcome = "Succeeded"
             => path = visited_pages \o <<TARGET>> /\ partial_path = <<>>
          /\ outcome \in Outcomes \ {"Succeeded"}
             => partial_path = <<visited_pages>> /\ path = <<>>
          /\ outcome = "Running"
             => start_page = "" /\ partial_path = <<>> /\ path = <<>>

C11_Witness ==
    /\ pc = "exit"
    /\ outcome = "FailedNoLinks"
    /\ exit_status = <<1>>
    /\ partial_path = <<visited_pages>>
    /\ Len(visited_pages) = 2

\* C12 (interruption): a process interrupted while navigate has visited
\* pages reports the partial path, the contents of visited_pages at that
\* moment, and exits with status 1.
C12_InterruptReportsPartialPath ==
    (pc = "exit" /\ interrupted /\ visited_pages # <<>>)
    => /\ exit_status = <<1>>
       /\ partial_path = <<visited_pages>>

\* C13 (backtrack invariant): link_attempt is 0 or 1; every link selection
\* leaves it at 0; and no two consecutive link selections both read 1.
C13_AttemptResets ==
    /\ [](link_attempt \in {0, 1})
    /\ [][ pc = "select"
           => /\ link_attempt' = 0
              /\ select_attempt' = <<link_attempt>>
              /\ ~(select_attempt = <<1>> /\ link_attempt = 1) ]_vars

C13_Witness ==
    /\ link_attempt = 1
    /\ select_attempt = <<0>>
    /\ fetches = 2
    /\ pc = "loop"

\* C14 (retry step): a run that went back to the previous page performs a
\* link selection with link_attempt = 1 on that page before it ends, unless
\* the budget runs out first.
C14_RetryAfterBacktrack ==
    (pc = "done" /\ backtracks >= 1 /\ iteration < MAX_ITERATIONS)
    => /\ select_attempt = <<1>>
       /\ fetches > Len(visited_pages)

AcceptedIn(paragraph) ==
    LET accepted(node) == /\ node.tag = "a"
                          /\ is_valid_link(node)
                          /\ ~is_in_italics(node)
                          /\ ~is_in_parentheses(node, paragraph)
        kept == SelectSeq(paragraph, accepted)
    IN  [i \in 1..Len(kept) |-> urljoin(BASE_URL, kept[i].href)]

\* The same over the paragraphs with a text, in document order.
RECURSIVE AcceptedLinks(_)
AcceptedLinks(paras) ==
    IF paras = <<>> THEN <<>>
    ELSE (IF is_empty_paragraph(Head(paras)) THEN <<>>
          ELSE AcceptedIn(Head(paras)))
         \o AcceptedLinks(Tail(paras))

Take(seq, n) == SubSeq(seq, 1, IF n < Len(seq) THEN n ELSE Len(seq))

\* C16: on a page with an article body and for num_links >= 1,
\* find_first_valid_links returns the first num_links accepted anchors (all
\* of them when there are fewer) of the paragraphs with a text, in document
\* order; what follows the num_links-th accepted anchor has no part in the
\* result.
C16_FirstAcceptedLinks ==
    (pc = "return" /\ num_links >= 1 /\ html.content /\ html.body)
    => valid_links = Take(AcceptedLinks(html.paras), num_links)

\* A page of two paragraphs: the first has no text and holds an image link,
\* the second holds two accepted anchors, of which one is asked for.
C16_Witness ==
    /\ pc = "return"
    /\ num_links = 1
    /\ Len(html.paras) = 2
    /\ is_empty_paragraph(html.paras[1])
    /\ Len(html.paras[1]) = 1
    /\ html.paras[1][1].tag = "a"
    /\ Len(AcceptedLinks(html.paras)) = 2
    /\ valid_links = <<urljoin(BASE_URL, html.paras[2][1].href)>>

\* C17: a failed fetch ends the run in the same pass as FailedFetch, with
\* no extraction; nothing is fetched or extracted afterwards; and the page
\* whose fetch failed is the last of the partial path that is printed.
C17_FetchFailureIsTerminal ==
    /\ [][ (pc = "fetch" /\ html'.kind = "None")
           => /\ pc' = "done"
              /\ outcome' = "FailedFetch"
              /\ iteration' = iteration
              /\ UNCHANGED <<valid_links, visited_pages>> ]_vars
    /\ []( outcome = "FailedFetch"
           => /\ pc \in {"done", "exit"}
              /\ Last(visited_pages) = current_page
              /\ fetches = Len(visited_pages)
              /\ pc = "exit" => /\ partial_path = <<visited_pages>>
                                /\ Last(partial_path[1]) = current_page
                                /\ exit_status = <<1>> )
    /\ [][ outcome = "FailedFetch"
           => UNCHANGED <<fetches, html, valid_links, visited_pages>> ]_vars

C17_Witness ==
    /\ pc = "exit"
    /\ outcome = "FailedFetch"
    /\ html = NoneHtml
    /\ partial_path = <<(<<"1", "2">>)>>
    /\ current_page = "2"

C19_FetchesEqualVisited ==
    /\ fetches = Len(visited_pages)
    /\ TARGET \notin Range(visited_pages)

\* C19 as amended: the number of fetches equals the length of visited_pages
\* at the head of every pass, at the link selection and at the end of the
\* run, and is one less between the append and the fetch of a pass; a fetch
\* is of the page just appended, which is not the target and not one of the
\* pages fetched before; the target is never in visited_pages.
C19_FetchesFollowVisited ==
    /\ [](IF pc = "fetch" THEN fetches + 1 = Len(visited_pages)
                          ELSE fetches = Len(visited_pages))
    /\ [](TARGET \notin Range(visited_pages))
    /\ [][ fetches' # fetches
           => /\ fetches' = fetches + 1
              /\ Len(visited_pages) = fetches + 1
              /\ current_page = Last(visited_pages)
              /\ current_page # TARGET
              /\ current_page \notin Range(SubSeq(visited_pages, 1, fetches))
         ]_vars

C19_Witness ==
    /\ pc = "done"
    /\ fetches = 3
    /\ Len(visited_pages) = 3
    /\ backtracks = 1
    /\ TitleOf(valid_links[1]) = <<"1">>

\* C20: the loop branch is only entered with a non-empty visited_pages, the
\* run never fails for want of a previous page, and a loop detected with
\* link_attempt = 0 always goes back to the last visited page.
C20_BacktrackAlwaysPossible ==
    /\ [](outcome # "FailedNoPrevious")
    /\ [][ ( /\ pc = "loop" /\ iteration < MAX_ITERATIONS
             /\ current_page # TARGET
             /\ current_page \in Range(visited_pages) )
           => /\ visited_pages # <<>>
              /\ link_attempt = 0
                 => /\ backtracks' = backtracks + 1
                    /\ pc' = "loop"
                    /\ link_attempt' = 1
                    /\ current_page' = Last(visited_pages) ]_vars

C20_Witness ==
    /\ backtracks = 1
    /\ pc = "loop"
    /\ link_attempt = 1
    /\ Len(visited_pages) = 1
    /\ current_page = start_page

====
